---- MODULE Spec2Model ----
(***************************************************************************)
(* Model of src/local.py, the interactive image analyzer: environment      *)
(* driven model configuration, image catalog discovery, the selection and  *)
(* text prompts and the session loop of main().                            *)
(*                                                                         *)
(* A Python str is modelled as a tuple of one-character strings, so that   *)
(* strip(), lower(), upper(), split(","), int() and the substring test are *)
(* computed and never assumed.                                             *)
(***************************************************************************)
EXTENDS Integers, Sequences, FiniteSets, TLC

VARIABLES
    pc,               \* position in main(): configure, find, display, select, text, generate, exited
    env,              \* os.environ, the five variables read by configure_ps3_and_context_length
    dir,              \* the directory named by --images-dir
    model,            \* the attributes of the loaded model that local.py writes
    image_files,      \* main(): image_files
    selected_images,  \* main(): selected_images
    text,             \* main(): text
    prompt,           \* main(): prompt
    turn,             \* number of iterations of the while loop started so far
    genCalls,         \* number of calls of model.generate_content made so far
    stdinClosed,      \* standard input has reached a permanent end of file
    exitStatus,       \* None while the process runs, then its exit status
    last              \* the step just taken: what it read, returned, raised, printed

vars == <<pc, env, dir, model, image_files, selected_images, text, prompt,
          turn, genCalls, stdinClosed, exitStatus, last>>

(***************************************************************************)
(* Characters and strings                                                  *)
(***************************************************************************)
LowerLetters == <<"a","b","c","d","e","f","g","h","i","j","k","l","m",
                  "n","o","p","q","r","s","t","u","v","w","x","y","z">>
UpperLetters == <<"A","B","C","D","E","F","G","H","I","J","K","L","M",
                  "N","O","P","Q","R","S","T","U","V","W","X","Y","Z">>
Digits == <<"0","1","2","3","4","5","6","7","8","9">>

\* The characters used, in code point order (the order sorted() compares by).
CodeOrder == <<" ", "+", ",", "-", ".">> \o Digits \o <<"?">> \o UpperLetters \o LowerLetters

IndexIn(c, s) == CHOOSE i \in 1..Len(s) : s[i] = c
IsIn(c, s) == \E i \in 1..Len(s) : s[i] = c
Code(c) == IndexIn(c, CodeOrder)

\* str.lower() and str.upper(), character by character
LowerChar(c) == IF IsIn(c, UpperLetters) THEN LowerLetters[IndexIn(c, UpperLetters)] ELSE c
UpperChar(c) == IF IsIn(c, LowerLetters) THEN UpperLetters[IndexIn(c, LowerLetters)] ELSE c
Lower(s) == [i \in 1..Len(s) |-> LowerChar(s[i])]
Upper(s) == [i \in 1..Len(s) |-> UpperChar(s[i])]

\* str.strip(): leading and trailing whitespace removed
RECURSIVE LStrip(_)
LStrip(s) == IF s # <<>> /\ Head(s) = " " THEN LStrip(Tail(s)) ELSE s
RECURSIVE RStrip(_)
RStrip(s) == IF s # <<>> /\ s[Len(s)] = " " THEN RStrip(SubSeq(s, 1, Len(s) - 1)) ELSE s
Strip(s) == RStrip(LStrip(s))

\* str.split(sep) for a one-character separator: always at least one piece
RECURSIVE Split(_, _)
Split(s, sep) ==
    IF ~IsIn(sep, s) THEN <<s>>
    ELSE LET i == CHOOSE k \in 1..Len(s) : s[k] = sep /\ \A j \in 1..(k - 1) : s[j] # sep
         IN <<SubSeq(s, 1, i - 1)>> \o Split(SubSeq(s, i + 1, Len(s)), sep)

\* a in b, for strings
Contains(b, a) == \E i \in 0..(Len(b) - Len(a)) : SubSeq(b, i + 1, i + Len(a)) = a
EndsWith(s, suffix) ==
    Len(suffix) <= Len(s) /\ SubSeq(s, Len(s) - Len(suffix) + 1, Len(s)) = suffix

\* s < t as Python compares strings
RECURSIVE StrLess(_, _)
StrLess(s, t) ==
    IF t = <<>> THEN FALSE
    ELSE IF s = <<>> THEN TRUE
    ELSE IF Head(s) # Head(t) THEN Code(Head(s)) < Code(Head(t))
    ELSE StrLess(Tail(s), Tail(t))

\* int(s): surrounding whitespace and one sign allowed, then decimal digits;
\* anything else raises ValueError
AllDigits(s) == s # <<>> /\ \A i \in 1..Len(s) : IsIn(s[i], Digits)
RECURSIVE DigitsValue(_)
DigitsValue(s) ==
    IF s = <<>> THEN 0
    ELSE 10 * DigitsValue(SubSeq(s, 1, Len(s) - 1)) + (IndexIn(s[Len(s)], Digits) - 1)
Unsigned(s) == IF s # <<>> /\ Head(s) \in {"+", "-"} THEN Tail(s) ELSE s
IsInt(s) == AllDigits(Unsigned(Strip(s)))
IntOf(s) ==
    LET t == Strip(s)
    IN IF Head(t) = "-" THEN 0 - DigitsValue(Tail(t)) ELSE DigitsValue(Unsigned(t))

Max(a, b) == IF a >= b THEN a ELSE b

\* Optional[...]: None, or a value
None == <<>>
Some(x) == <<x>>
IsSet(v) == v # None
Val(v) == v[1]

(***************************************************************************)
(* configure_ps3_and_context_length                                        *)
(***************************************************************************)
LookCloseTokens == 2560
TokensPerContext == 4
ContextMargin == 1024

TRUE_STR == <<"t","r","u","e">>
FALSE_STR == <<"f","a","l","s","e">>

\* The PS3 overrides of lines 104-128, applied in order to the partial result
\* r = [raised, model]; a step after a raise is skipped.
SetNumLookClose(r, e) ==
    IF r.raised \/ ~IsSet(e.NUM_LOOK_CLOSE) THEN r
    ELSE IF ~IsInt(Val(e.NUM_LOOK_CLOSE)) THEN [r EXCEPT !.raised = TRUE]
    ELSE [r EXCEPT !.model.num_look_close = Some(IntOf(Val(e.NUM_LOOK_CLOSE)))]

SetNumTokenLookClose(r, e) ==
    IF r.raised \/ ~IsSet(e.NUM_TOKEN_LOOK_CLOSE) THEN r
    ELSE IF ~IsInt(Val(e.NUM_TOKEN_LOOK_CLOSE)) THEN [r EXCEPT !.raised = TRUE]
    ELSE [r EXCEPT !.model.num_token_look_close = Some(IntOf(Val(e.NUM_TOKEN_LOOK_CLOSE)))]

SetSelectNumEachScale(r, e) ==
    IF r.raised \/ ~IsSet(e.SELECT_NUM_EACH_SCALE) THEN r
    ELSE LET parts == Split(Val(e.SELECT_NUM_EACH_SCALE), "+")
         IN IF \E i \in 1..Len(parts) : ~IsInt(parts[i]) THEN [r EXCEPT !.raised = TRUE]
            ELSE [r EXCEPT !.model.max_select_num_each_scale =
                               Some([i \in 1..Len(parts) |-> IntOf(parts[i])])]

SetLookCloseMode(r, e) ==
    IF r.raised \/ ~IsSet(e.LOOK_CLOSE_MODE) THEN r
    ELSE [r EXCEPT !.model.look_close_mode = e.LOOK_CLOSE_MODE]

\* Mutant of lines 119-128: any value other than "true" counts as false
SetSmoothSelectionProb_Lenient(r, e) ==
    IF r.raised \/ ~IsSet(e.SMOOTH_SELECTION_PROB) THEN r
    ELSE [r EXCEPT !.model.smooth_selection_prob =
                       Some(Lower(Val(e.SMOOTH_SELECTION_PROB)) = <<"t","r","u","e">>)]
SetSmoothSelectionProb(r, e) ==
    IF r.raised \/ ~IsSet(e.SMOOTH_SELECTION_PROB) THEN r
    ELSE LET v == Lower(Val(e.SMOOTH_SELECTION_PROB))
         IN IF v = TRUE_STR THEN [r EXCEPT !.model.smooth_selection_prob = Some(TRUE)]
            ELSE IF v = FALSE_STR THEN [r EXCEPT !.model.smooth_selection_prob = Some(FALSE)]
            ELSE [r EXCEPT !.raised = TRUE]

\* Lines 131-139: the context length the PS3 configuration needs
ContextLength(m, e) ==
    LET c0 == m.tokenizer_model_max_length
        c1 == IF IsSet(e.NUM_LOOK_CLOSE)
              THEN Max(c0, (IntOf(Val(e.NUM_LOOK_CLOSE)) * LookCloseTokens) \div TokensPerContext
                           + ContextMargin)
              ELSE c0
        c2 == IF IsSet(e.NUM_TOKEN_LOOK_CLOSE)
              THEN Max(c1, IntOf(Val(e.NUM_TOKEN_LOOK_CLOSE)) \div TokensPerContext
                           + ContextMargin)
              ELSE c1
    IN Max(m.tokenizer_model_max_length, c2)

\* Mutant of lines 140-144: the language model's tokenizer copy is left out
SetContextLength_MissesOne(r, e) ==
    IF r.raised THEN r
    ELSE [r EXCEPT !.model.config_model_max_length = ContextLength(r.model, e),
                   !.model.config_tokenizer_model_max_length = ContextLength(r.model, e),
                   !.model.llm_config_model_max_length = ContextLength(r.model, e),
                   !.model.tokenizer_model_max_length = ContextLength(r.model, e)]
\* Lines 140-144: the value written to every place that holds it
SetContextLength(r, e) ==
    IF r.raised THEN r
    ELSE LET c == ContextLength(r.model, e)
         IN [r EXCEPT !.model.config_model_max_length = c,
                      !.model.config_tokenizer_model_max_length = c,
                      !.model.llm_config_model_max_length = c,
                      !.model.llm_config_tokenizer_model_max_length = c,
                      !.model.tokenizer_model_max_length = c]

configure_ps3_and_context_length(m, e) ==
    SetContextLength(
        SetSmoothSelectionProb(
            SetLookCloseMode(
                SetSelectNumEachScale(
                    SetNumTokenLookClose(
                        SetNumLookClose([raised |-> FALSE, model |-> m], e), e), e), e), e), e)

\* What a step of main() leaves in `last`
Step(op, inp, returned, value, raised, printed) ==
    [op |-> op, inp |-> inp, returned |-> returned, value |-> value,
     raised |-> raised, printed |-> printed]
NoStep == Step("start", None, FALSE, None, None, <<>>)

\* main(), line 194: an exception of configure_ps3_and_context_length is not
\* caught, the interpreter prints the traceback and exits with status 1
Configure ==
    /\ pc = "configure"
    /\ LET r == configure_ps3_and_context_length(model, env)
       IN /\ model' = r.model
          /\ IF r.raised
             THEN /\ pc' = "exited"
                  /\ exitStatus' = Some(1)
                  /\ last' = Step("configure", None, FALSE, None, Some("ValueError"), <<"traceback">>)
             ELSE /\ pc' = "find"
                  /\ exitStatus' = None
                  /\ last' = Step("configure", None, TRUE, None, None, <<>>)
    /\ UNCHANGED <<env, dir, image_files, selected_images, text, prompt, turn, genCalls, stdinClosed>>

(***************************************************************************)
(* find_images                                                             *)
(***************************************************************************)
supported_extensions ==
    << <<".","j","p","g">>, <<".","j","p","e","g">>, <<".","p","n","g">>,
       <<".","b","m","p">>, <<".","g","i","f">> >>

\* Path.glob("*" + ext) on a case-sensitive file system: the immediate
\* entries whose name ends with ext, in the order the directory lists them
RECURSIVE Glob(_, _)
Glob(entries, ext) ==
    IF entries = <<>> THEN <<>>
    ELSE (IF EndsWith(Head(entries), ext) THEN <<Head(entries)>> ELSE <<>>)
         \o Glob(Tail(entries), ext)

\* Lines 27-29: for every extension, its matches and those of its upper case
RECURSIVE GlobAll(_, _)
GlobAll(entries, exts) ==
    IF exts = <<>> THEN <<>>
    ELSE Glob(entries, Head(exts)) \o Glob(entries, Upper(Head(exts)))
         \o GlobAll(entries, Tail(exts))

\* sorted(): stable, ascending
RECURSIVE Insert(_, _)
Insert(x, s) ==
    IF s = <<>> THEN <<x>>
    ELSE IF StrLess(x, Head(s)) THEN <<x>> \o s
    ELSE <<Head(s)>> \o Insert(x, Tail(s))
RECURSIVE Sorted(_)
Sorted(s) == IF s = <<>> THEN <<>> ELSE Insert(s[Len(s)], Sorted(SubSeq(s, 1, Len(s) - 1)))

find_images(d) ==
    IF ~d.exists THEN <<>>
    ELSE Sorted(GlobAll(d.entries, supported_extensions))

\* main(), lines 201-212
FindImages ==
    /\ pc = "find"
    /\ image_files' = find_images(dir)
    /\ IF image_files' = <<>>
       THEN /\ pc' = "exited"
            /\ exitStatus' = Some(1)
            /\ last' = Step("find", None, TRUE, Some(image_files'), Some("SystemExit"),
                            IF dir.exists THEN <<"no_images">> ELSE <<"dir_not_found", "no_images">>)
       ELSE /\ pc' = "display"
            /\ exitStatus' = None
            /\ last' = Step("find", None, TRUE, Some(image_files'), None, <<"interactive_mode">>)
    /\ UNCHANGED <<env, dir, model, selected_images, text, prompt, turn, genCalls, stdinClosed>>

(***************************************************************************)
(* The inputs explored                                                     *)
(***************************************************************************)
\* Lines typed at the selection prompt
SelectionLines ==
    {<<>>,
     <<" ">>,
     <<"a","l","l">>,
     <<" ","A","l","l"," ">>,
     <<"1">>,
     <<"2">>,
     <<"2",",","1">>,
     <<"1",","," ","2">>,
     <<"1",",","3">>,
     <<"3",",","1">>,
     <<"0">>,
     <<"-","1">>,
     <<"1",",","x">>,
     <<"J","P","G">>,
     <<"a">>,
     <<"q">>,
     <<"q","u","i","t">>,
     <<"e","x","i","t">>}

\* Lines typed at the text prompt
TextLines ==
    {<<>>,
     <<" "," ">>,
     <<"q","u","i","t">>,
     <<" ","E","x","i","t">>,
     <<"Q">>,
     <<"h","i">>,
     <<" ","q","?"," ">>}

\* Directory entries for catalog discovery
NamePool ==
    {<<"a",".","j","p","g">>,
     <<"b",".","p","n","g">>,
     <<"c",".","t","x","t">>,
     <<"d",".","J","P","G">>,
     <<"e",".","J","p","g">>,
     <<"f",".","j","p","e","g">>,
     <<"j","p","g">>}

\* Number of entries of an explored directory
MaxEntries == 3

\* Every listing of n distinct names of the pool, in every order
Listings(n) == {l \in [1..n -> NamePool] : \A i, j \in 1..n : i # j => l[i] # l[j]}

Directory(exists, entries, nested) == [exists |-> exists, entries |-> entries, nested |-> nested]
NoDirectory == Directory(FALSE, <<>>, <<>>)

FindDirs ==
    {NoDirectory}
    \cup {Directory(TRUE, l, n) : l \in UNION {Listings(k) : k \in 0..MaxEntries},
                                   n \in {<<>>, <<<<"n",".","p","n","g">>>>}}

MainDirs ==
    {NoDirectory,
     Directory(TRUE, <<<<"b",".","p","n","g">>, <<"a",".","j","p","g">>, <<"c",".","t","x","t">>>>, <<>>),
     Directory(TRUE, <<<<"q","u","i","t",".","g","i","f">>, <<"Q","1",".","J","P","G">>, <<"e",".","J","p","g">>>>, <<<<"n",".","p","n","g">>>>)}

Environment(nlc, ntlc, snes, lcm, ssp) ==
    [NUM_LOOK_CLOSE |-> nlc, NUM_TOKEN_LOOK_CLOSE |-> ntlc, SELECT_NUM_EACH_SCALE |-> snes,
     LOOK_CLOSE_MODE |-> lcm, SMOOTH_SELECTION_PROB |-> ssp]
NoEnvironment == Environment(None, None, None, None, None)

ConfigEnvs ==
    {Environment(a, b, c, d, e) :
        a \in {None} \cup {Some(x) : x \in {<<"0">>, <<"2">>, <<"1","0","0">>, <<"x">>}},
        b \in {None} \cup {Some(x) : x \in {<<"0">>, <<"4","1","0","0">>, <<"3","0","0","0","0","0">>, <<"-","5">>}},
        c \in {None} \cup {Some(x) : x \in {<<"1","+","2">>, <<"1","+">>}},
        d \in {None} \cup {Some(x) : x \in {<<"s","o","f","t">>}},
        e \in {None} \cup {Some(x) : x \in {<<"t","r","u","e">>, <<"F","a","l","s","e">>, <<"m","a","y","b","e">>}}}

MainEnvs ==
    {NoEnvironment,
     Environment(Some(<<"1","0","0">>), None, None, None, Some(<<"T","r","u","e">>)),
     Environment(None, None, None, None, Some(<<"m","a","y","b","e">>)),
     Environment(Some(<<"2">>), Some(<<"4","1","0","0">>), Some(<<"1","+","2">>), Some(<<"s","o","f","t">>), Some(<<"Y","e","s">>))}

\* The tokenizer's model_max_length as loaded, and the value the checkpoint's
\* configurations carry
TokenizerLengths == {512, 2048, 65024, 100000}
CheckpointLengths == {2048, 4096}

(***************************************************************************)
(* Reading a line: input()                                                 *)
(***************************************************************************)
\* What one call of input() can do: return a line, raise EOFError (once, as
\* Ctrl-D on a terminal does, or for good when the stream is closed), or be
\* interrupted. r = [kind, line, closes]
ReadOutcomes(lines) ==
    IF stdinClosed THEN {[kind |-> "eof", line |-> None, closes |-> TRUE]}
    ELSE {[kind |-> "line", line |-> Some(l), closes |-> FALSE] : l \in lines}
         \cup {[kind |-> "eof", line |-> None, closes |-> c] : c \in BOOLEAN}
         \cup {[kind |-> "interrupt", line |-> None, closes |-> FALSE]}

(***************************************************************************)
(* select_images                                                           *)
(***************************************************************************)
ALL_STR == <<"a","l","l">>

\* Mutant of lines 59-68: an index out of range is skipped, not fatal
RECURSIVE SelectByIndex_Partial(_, _, _)
SelectByIndex_Partial(files, indices, selected) ==
    IF indices = <<>> THEN Some(selected)
    ELSE IF 1 <= Head(indices) /\ Head(indices) <= Len(files)
         THEN SelectByIndex_Partial(files, Tail(indices), Append(selected, files[Head(indices)]))
         ELSE SelectByIndex_Partial(files, Tail(indices), selected)
\* Lines 59-68 over the indices still to visit, with the entries selected so
\* far: None for the early `return []`
RECURSIVE SelectByIndex(_, _, _)
SelectByIndex(files, indices, selected) ==
    IF indices = <<>> THEN Some(selected)
    ELSE IF 1 <= Head(indices) /\ Head(indices) <= Len(files)
         THEN SelectByIndex(files, Tail(indices), Append(selected, files[Head(indices)]))
         ELSE None

\* Mutant of lines 71-72: the comparison without lower()
RECURSIVE Matches_CaseSensitive(_, _)
Matches_CaseSensitive(files, selection) ==
    IF files = <<>> THEN <<>>
    ELSE (IF Contains(Head(files), selection) THEN <<Head(files)>> ELSE <<>>)
         \o Matches_CaseSensitive(Tail(files), selection)
\* Lines 71-72: the entries whose name contains the selection, ignoring case
RECURSIVE Matches(_, _)
Matches(files, selection) ==
    IF files = <<>> THEN <<>>
    ELSE (IF Contains(Lower(Head(files)), Lower(selection)) THEN <<Head(files)>> ELSE <<>>)
         \o Matches(Tail(files), selection)

\* One pass of the while loop of select_images over the line read:
\* [returned, value, printed]; returned = FALSE is a new pass of the loop.
select_images(files, line) ==
    LET selection == Strip(line)
        pieces == Split(selection, ",")
    IN IF selection = <<>>
       THEN [returned |-> FALSE, value |-> <<>>, printed |-> <<"please_enter_selection">>]
       ELSE IF Lower(selection) = ALL_STR
       THEN [returned |-> TRUE, value |-> files, printed |-> <<>>]
       ELSE IF \A i \in 1..Len(pieces) : IsInt(pieces[i])
       THEN LET r == SelectByIndex(files, [i \in 1..Len(pieces) |-> IntOf(pieces[i])], <<>>)
            IN IF r = None
               THEN [returned |-> TRUE, value |-> <<>>, printed |-> <<"invalid_index">>]
               ELSE IF Val(r) # <<>>
               THEN [returned |-> TRUE, value |-> Val(r), printed |-> <<>>]
               ELSE [returned |-> FALSE, value |-> <<>>, printed |-> <<>>]
       ELSE LET matches == Matches(files, selection)
            IN IF matches # <<>>
               THEN [returned |-> TRUE, value |-> matches, printed |-> <<>>]
               ELSE [returned |-> FALSE, value |-> <<>>, printed |-> <<"could_not_find">>]

(***************************************************************************)
(* get_text_input                                                          *)
(***************************************************************************)
QuitTokens == {<<"q","u","i","t">>, <<"e","x","i","t">>, <<"q">>}

\* Mutants of get_text_input: the quit test without lower(), and the empty
\* line answered with the quit sentinel
get_text_input_CaseSensitive(line) ==
    LET t == Strip(line)
    IN IF t \in QuitTokens THEN [value |-> None, printed |-> <<>>]
       ELSE IF t = <<>> THEN [value |-> Some(<<>>), printed |-> <<"please_enter_question">>]
       ELSE [value |-> Some(t), printed |-> <<>>]
get_text_input_EmptyQuits(line) ==
    LET t == Strip(line)
    IN IF Lower(t) \in QuitTokens THEN [value |-> None, printed |-> <<>>]
       ELSE IF t = <<>> THEN [value |-> None, printed |-> <<"please_enter_question">>]
       ELSE [value |-> Some(t), printed |-> <<>>]
\* [value, printed]: value None is the quit sentinel, Some(<<>>) the empty string
get_text_input(line) ==
    LET t == Strip(line)
    IN IF Lower(t) \in QuitTokens THEN [value |-> None, printed |-> <<>>]
       ELSE IF t = <<>> THEN [value |-> Some(<<>>), printed |-> <<"please_enter_question">>]
       ELSE [value |-> Some(t), printed |-> <<>>]

(***************************************************************************)
(* main(): the session loop, lines 214-259                                 *)
(***************************************************************************)
MaxTurns == 3

\* Mutant of lines 238-242: the prompt list is not started afresh
BuildPrompt_NoReset(selected, t) ==
    prompt \o [i \in 1..Len(selected) |-> [kind |-> "image", path |-> selected[i]]]
           \o <<[kind |-> "text", value |-> t]>>
\* Lines 238-242
Image(path) == [kind |-> "image", path |-> path]
TextPart(t) == [kind |-> "text", value |-> t]
BuildPrompt(selected, t) == [i \in 1..Len(selected) |-> Image(selected[i])] \o <<TextPart(t)>>

\* Lines 253-255: except KeyboardInterrupt
Interrupted(op, inp) ==
    /\ pc' = "exited"
    /\ exitStatus' = Some(0)
    /\ last' = Step(op, inp, FALSE, None, Some("KeyboardInterrupt"), <<"farewell">>)

\* Mutants of the handler of lines 256-259
Caught_Reraise(op, inp, exc) ==
    /\ pc' = "exited"
    /\ exitStatus' = Some(1)
    /\ last' = Step(op, inp, FALSE, None, Some(exc), <<"error">>)
Caught_BreakOnEOF(op, inp, exc) ==
    /\ pc' = IF exc = "EOFError" THEN "exited" ELSE "display"
    /\ exitStatus' = IF exc = "EOFError" THEN Some(0) ELSE None
    /\ last' = Step(op, inp, FALSE, None, Some(exc), <<"error">>)
\* Lines 256-259: except Exception
Caught(op, inp, exc) ==
    /\ pc' = "display"
    /\ exitStatus' = None
    /\ last' = Step(op, inp, FALSE, None, Some(exc), <<"error">>)

\* Line 217: display_images; stat() of a listed file can fail
Display ==
    /\ pc = "display"
    /\ turn < MaxTurns
    /\ turn' = turn + 1
    /\ \E outcome \in {"ok", "OSError", "interrupt"} :
         CASE outcome = "ok" ->
                /\ pc' = "select"
                /\ exitStatus' = None
                /\ last' = Step("display", None, TRUE, None, None, <<"catalog">>)
           [] outcome = "OSError" -> Caught("display", None, "OSError")
           [] outcome = "interrupt" -> Interrupted("display", None)
    /\ UNCHANGED <<env, dir, model, image_files, selected_images, text, prompt, genCalls, stdinClosed>>

\* Lines 218-226: one input() of select_images and what follows it
SelectImages ==
    /\ pc = "select"
    /\ \E r \in ReadOutcomes(SelectionLines) :
         /\ stdinClosed' = (stdinClosed \/ r.closes)
         /\ CASE r.kind = "eof" ->
                   /\ Caught("select", None, "EOFError")
                   /\ UNCHANGED selected_images
              [] r.kind = "interrupt" ->
                   /\ Interrupted("select", None)
                   /\ UNCHANGED selected_images
              [] r.kind = "line" ->
                   LET s == select_images(image_files, Val(r.line))
                   IN /\ exitStatus' = None
                      /\ IF ~s.returned
                         THEN /\ pc' = "select"
                              /\ UNCHANGED selected_images
                              /\ last' = Step("select", r.line, FALSE, None, None, s.printed)
                         ELSE /\ selected_images' = s.value
                              /\ pc' = IF s.value = <<>> THEN "display" ELSE "text"
                              /\ last' = Step("select", r.line, TRUE, Some(s.value), None,
                                              IF s.value = <<>> THEN s.printed
                                              ELSE s.printed \o <<"selected">>)
    /\ UNCHANGED <<env, dir, model, image_files, text, prompt, turn, genCalls>>

\* Lines 229-245: get_text_input and what follows it, up to the call of
\* model.generate_content
TextInput ==
    /\ pc = "text"
    /\ \E r \in ReadOutcomes(TextLines) :
         /\ stdinClosed' = (stdinClosed \/ r.closes)
         /\ CASE r.kind = "eof" ->
                   /\ Caught("text", None, "EOFError")
                   /\ UNCHANGED <<text, prompt>>
              [] r.kind = "interrupt" ->
                   /\ Interrupted("text", None)
                   /\ UNCHANGED <<text, prompt>>
              [] r.kind = "line" ->
                   LET g == get_text_input(Val(r.line))
                   IN /\ text' = g.value
                      /\ IF g.value = None
                         THEN /\ pc' = "exited"
                              /\ exitStatus' = Some(0)
                              /\ UNCHANGED prompt
                              /\ last' = Step("text", r.line, TRUE, g.value, None, <<"farewell">>)
                         ELSE IF Val(g.value) = <<>>
                         THEN /\ pc' = "display"
                              /\ exitStatus' = None
                              /\ UNCHANGED prompt
                              /\ last' = Step("text", r.line, TRUE, g.value, None, g.printed)
                         ELSE /\ pc' = "generate"
                              /\ exitStatus' = None
                              /\ prompt' = BuildPrompt(selected_images, Val(g.value))
                              /\ last' = Step("text", r.line, TRUE, g.value, None, <<"processing">>)
    /\ UNCHANGED <<env, dir, model, image_files, selected_images, turn, genCalls>>

\* Lines 246-251: model.generate_content(prompt) returns, raises or is interrupted
Generate ==
    /\ pc = "generate"
    /\ genCalls' = genCalls + 1
    /\ \E outcome \in {"ok", "Exception", "interrupt"} :
         CASE outcome = "ok" ->
                /\ pc' = "display"
                /\ exitStatus' = None
                /\ last' = Step("generate", Some(prompt), TRUE, None, None, <<"response">>)
           [] outcome = "Exception" -> Caught("generate", Some(prompt), "Exception")
           [] outcome = "interrupt" -> Interrupted("generate", Some(prompt))
    /\ UNCHANGED <<env, dir, model, image_files, selected_images, text, prompt, turn, stdinClosed>>

(***************************************************************************)
(* Specifications                                                          *)
(***************************************************************************)
\* The model as llava.load returns it
LoadedModel(tokenizerLength, checkpointLength) ==
    [num_look_close |-> None, num_token_look_close |-> None,
     max_select_num_each_scale |-> None, look_close_mode |-> None,
     smooth_selection_prob |-> None,
     tokenizer_model_max_length |-> tokenizerLength,
     config_model_max_length |-> checkpointLength,
     config_tokenizer_model_max_length |-> checkpointLength,
     llm_config_model_max_length |-> checkpointLength,
     llm_config_tokenizer_model_max_length |-> checkpointLength]

\* main() at line 193: arguments parsed, model loaded, nothing configured yet
InitWith(envs, dirs, tokenizerLengths, checkpointLengths) ==
    /\ pc = "configure"
    /\ env \in envs
    /\ dir \in dirs
    /\ model \in {LoadedModel(t, c) : t \in tokenizerLengths, c \in checkpointLengths}
    /\ image_files = <<>>
    /\ selected_images = <<>>
    /\ text = None
    /\ prompt = <<>>
    /\ turn = 0
    /\ genCalls = 0
    /\ stdinClosed = FALSE
    /\ exitStatus = None
    /\ last = NoStep

\* The whole of main()
Init == InitWith(MainEnvs, MainDirs, {2048}, {4096})
Next == Configure \/ FindImages \/ Display \/ SelectImages \/ TextInput \/ Generate
Spec == Init /\ [][Next]_vars

\* configure_ps3_and_context_length over many environments
InitConfigure == InitWith(ConfigEnvs, {NoDirectory}, TokenizerLengths, CheckpointLengths)
NextConfigure == Configure
SpecConfigure == InitConfigure /\ [][NextConfigure]_vars

\* find_images over many directories
InitFind == InitWith({NoEnvironment}, FindDirs, {2048}, {4096})
NextFind == Configure \/ FindImages
SpecFind == InitFind /\ [][NextFind]_vars

(***************************************************************************)
(* Properties of the session loop                                          *)
(***************************************************************************)
InLoop(p) == p \in {"display", "select", "text", "generate"}
Printed(step, what) == IsIn(what, step.printed)
QUIT_WORDS == {<<"q","u","i","t">>, <<"e","x","i","t">>, <<"q">>}

\* What C1 asks of every step
C1_Step ==
    /\ (pc = "generate" /\ last'.raised = Some("Exception"))
          => /\ pc' = "display"
             /\ exitStatus' = None
             /\ Printed(last', "error")
    /\ pc = "display"
          => /\ last'.op = "display"
             /\ (last'.raised = None => pc' = "select" /\ Printed(last', "catalog"))

\* C1: when model.generate_content raises an exception other than a keyboard
\* interrupt, the handler reports the error, the process keeps running and
\* the loop is back at DisplayCatalog; from there the next step is
\* display_images and, once it has listed the catalog, the selection prompt.
C1_GenerationFailureContinues == [][C1_Step]_vars
\* a second failed generation, after which the loop is again at DisplayCatalog
C1_Witness ==
    /\ last.op = "generate" /\ last.raised = Some("Exception")
    /\ genCalls >= 2 /\ pc = "display"

\* What C2 asks of every step
C2_Step ==
    /\ \A l \in TextLines :
          (pc = "text" /\ last'.inp = Some(l) /\ Lower(l) \in QUIT_WORDS)
             => /\ pc' = "exited" /\ exitStatus' = Some(0)
                /\ Printed(last', "farewell")
                /\ genCalls' = genCalls
    /\ (InLoop(pc) /\ last'.raised = Some("KeyboardInterrupt"))
          => /\ pc' = "exited" /\ exitStatus' = Some(0)
             /\ Printed(last', "farewell")
             /\ (pc # "generate" => genCalls' = genCalls)
    /\ pc = "exited" => FALSE
    /\ \A l \in TextLines :
          (pc = "text" /\ last'.inp = Some(l)
              /\ Strip(l) # <<>> /\ Lower(Strip(l)) \notin QUIT_WORDS)
             => /\ pc' = "generate" /\ exitStatus' = None
                /\ genCalls' = genCalls /\ turn' = turn
    /\ pc = "generate" => genCalls' = genCalls + 1 /\ pc' # "generate" /\ turn' = turn
    /\ genCalls' # genCalls => pc = "generate"

C3_Original_Step ==
    \A l \in TextLines :
       (pc = "text" /\ last'.inp = Some(l) /\ Strip(l) = <<>>)
          => /\ text' = Some(<<>>)
             /\ genCalls' = genCalls
             /\ pc' = "text"
             /\ selected_images' = selected_images

\* C3 as claimed: after an empty or blank line at the text prompt the next
\* input asked for is again the text query, the selection being kept.
C3_Original == [][C3_Original_Step]_vars

\* What C3 asks of every step
C3_Step ==
    /\ \A l \in TextLines :
          (pc = "text" /\ last'.inp = Some(l) /\ Strip(l) = <<>>)
             => /\ text' = Some(<<>>)
                /\ last'.value = Some(<<>>)
                /\ genCalls' = genCalls
                /\ exitStatus' = None
                /\ pc' = "display"
    /\ pc = "display" => last'.op = "display" /\ pc' \in {"select", "display", "exited"}
    /\ pc' = "text"
          => /\ pc = "select"
             /\ last'.returned
             /\ selected_images' = Val(last'.value)
             /\ selected_images' # <<>>

\* C3 amended: an empty or blank line at the text prompt makes
\* get_text_input return the empty string (not the quit sentinel), no
\* generation call is made and the process keeps running, and the caller
\* restarts the iteration at DisplayCatalog: the catalog is displayed again,
\* the next input asked for is the image selection, and the text query is
\* asked for again only after select_images has returned a new, non-empty
\* selection.
C3_EmptyTextRestartsTurn == [][C3_Step]_vars
\* a blank line was read at the text prompt and the loop is at DisplayCatalog
C3_Witness ==
    /\ last.op = "text" /\ last.inp = Some(<<" ", " ">>)
    /\ pc = "display" /\ text = Some(<<>>) /\ selected_images # <<>>

\* What the line typed at the selection prompt is, once stripped
ALL_WORD == <<"a","l","l">>
IsIndexList(l) ==
    LET sel == Strip(l)
    IN /\ sel # <<>>
       /\ Lower(sel) # ALL_WORD
       /\ \A i \in 1..Len(Split(sel, ",")) : IsInt(Split(sel, ",")[i])
IndicesOf(l) == LET p == Split(Strip(l), ",") IN [i \in 1..Len(p) |-> IntOf(p[i])]
IsNameSelection(l) ==
    LET sel == Strip(l)
    IN sel # <<>> /\ Lower(sel) # ALL_WORD /\ ~IsIndexList(l)
\* the catalog entries whose name contains the stripped line, ignoring case
NameMatches(files, l) ==
    LET Hit(n) == Contains(Lower(n), Lower(Strip(l)))
    IN SelectSeq(files, Hit)

\* What C4 asks of every step
C4_Step ==
    /\ \A l \in SelectionLines :
          (pc = "select" /\ last'.inp = Some(l) /\ IsIndexList(l))
             => LET idx == IndicesOf(l)
                IN IF \E k \in 1..Len(idx) : idx[k] < 1 \/ idx[k] > Len(image_files)
                   THEN /\ last'.returned
                        /\ last'.value = Some(<<>>)
                        /\ selected_images' = <<>>
                        /\ pc' = "display"
                        /\ genCalls' = genCalls
                   ELSE /\ last'.returned
                        /\ last'.value = Some([k \in 1..Len(idx) |-> image_files[idx[k]]])
                        /\ selected_images' = [k \in 1..Len(idx) |-> image_files[idx[k]]]
                        /\ pc' = "text"
    /\ pc = "display" => last'.op = "display" /\ pc' \in {"select", "display", "exited"}

\* C4: for a comma-separated list of integers at the selection prompt, one
\* index outside 1..len(catalog) makes select_images return the empty list,
\* whatever valid indices came before it, and the loop goes back to
\* DisplayCatalog without a text prompt and without a generation; with every
\* index in range the result is catalog[i-1] for each listed i, in order.
C4_IndexSelection == [][C4_Step]_vars
\* "1,3" on a catalog of two: a valid index, then one out of range
C4_Witness ==
    /\ last.op = "select" /\ last.inp = Some(<<"1",",","3">>)
    /\ Len(image_files) = 2 /\ last.value = Some(<<>>) /\ pc = "display"

\* C5 as claimed: a name selection returns the matching entries, and when
\* none matches it shows an error and returns the empty selection.
C5_Original ==
    \A l \in SelectionLines :
       (last.op = "select" /\ last.inp = Some(l) /\ IsNameSelection(l))
          => /\ last.returned
             /\ last.value = Some(NameMatches(image_files, l))
             /\ (NameMatches(image_files, l) = <<>> => Printed(last, "could_not_find"))

\* C5 amended: for a non-empty selection (the line without its surrounding
\* blanks) that is neither "all" in any letter case nor a comma-separated list
\* of integers, select_images returns all and only the catalog entries whose
\* file name contains it as a case-insensitive substring, in catalog order;
\* when no entry matches it shows an error message and does not return: it
\* asks for a selection again, the catalog not being displayed again.
C5_NameSelection ==
    \A l \in SelectionLines :
       (last.op = "select" /\ last.inp = Some(l) /\ IsNameSelection(l))
          => IF NameMatches(image_files, l) # <<>>
             THEN /\ last.returned
                  /\ last.value = Some(NameMatches(image_files, l))
                  /\ selected_images = NameMatches(image_files, l)
                  /\ pc = "text"
             ELSE /\ ~last.returned
                  /\ Printed(last, "could_not_find")
                  /\ pc = "select"
\* "JPG" selects the one entry whose name holds it in another letter case
C5_Witness ==
    /\ last.op = "select" /\ last.inp = Some(<<"J","P","G">>)
    /\ last.value = Some(<<<<"a",".","j","p","g">>>>) /\ Len(image_files) = 2

\* What C9 asks of every step
C9_Step ==
    /\ pc' = "text"
          => /\ pc = "select" /\ last'.returned
             /\ selected_images' = Val(last'.value) /\ selected_images' # <<>>
    /\ pc' = "generate"
          => /\ pc = "text"
             /\ selected_images' = selected_images
             /\ \E l \in TextLines :
                   /\ last'.inp = Some(l)
                   /\ Strip(l) # <<>> /\ Lower(Strip(l)) \notin QUIT_WORDS
                   /\ Len(prompt') = Len(selected_images) + 1
                   /\ \A i \in 1..Len(selected_images) :
                         prompt'[i] = [kind |-> "image", path |-> selected_images[i]]
                   /\ prompt'[Len(prompt')] = [kind |-> "text", value |-> Strip(l)]
    /\ pc = "generate" => last'.op = "generate" /\ last'.inp = Some(prompt)
    /\ turn' # turn => pc = "display"

\* C9: the prompt passed to generate_content is the image references of the
\* selection returned in this iteration, in selection order and at least one,
\* followed by exactly one text element, the non-empty, non-quit text read in
\* this iteration; nothing else is in it.
C9_PromptIsCurrentTurn == [][C9_Step]_vars
\* a second generation, on a selection of one image
C9_Witness ==
    /\ last.op = "generate" /\ genCalls = 2
    /\ Len(prompt) = 2 /\ prompt[1].path = <<"b",".","p","n","g">>

\* What C10 asks of every step
C10_Step ==
    /\ (InLoop(pc) /\ pc' = "exited")
          => \/ last'.raised = Some("KeyboardInterrupt")
             \/ /\ pc = "text"
                /\ \E l \in TextLines : last'.inp = Some(l) /\ Lower(Strip(l)) \in QUIT_WORDS
    /\ \A l \in SelectionLines :
          (pc = "select" /\ last'.inp = Some(l))
             => /\ InLoop(pc') /\ exitStatus' = None
                /\ (Lower(Strip(l)) \in QUIT_WORDS
                       => IF NameMatches(image_files, l) # <<>>
                          THEN last'.value = Some(NameMatches(image_files, l))
                          ELSE ~last'.returned /\ pc' = "select")
    /\ (InLoop(pc) /\ last'.raised \in {Some("EOFError"), Some("OSError"), Some("Exception")})
          => pc' = "display" /\ exitStatus' = None /\ Printed(last', "error")
    /\ (InLoop(pc) /\ stdinClosed /\ last'.raised # Some("KeyboardInterrupt"))
          => InLoop(pc') /\ exitStatus' = None /\ stdinClosed'
    /\ (stdinClosed /\ pc \in {"select", "text"} /\ last'.raised # Some("KeyboardInterrupt"))
          => last'.raised = Some("EOFError")

\* C10: the loop ends only by a quit word read at the text prompt or by a
\* keyboard interrupt; no line typed at the selection prompt ends it ("quit",
\* "exit" and "q" are name selections there); EOFError, OSError and a
\* generation failure are caught and restart the loop at DisplayCatalog; with
\* standard input closed no step other than a keyboard interrupt ends it.
C10_LoopEndsOnlyByQuitOrInterrupt == [][C10_Step]_vars
\* standard input closed, an EOFError caught at the selection prompt a second time
C10_Witness ==
    /\ stdinClosed /\ turn >= 2 /\ pc = "display"
    /\ last.op = "select" /\ last.raised = Some("EOFError")

(***************************************************************************)
(* Properties of the start of main()                                       *)
(***************************************************************************)
\* The largest element of a non-empty set of integers
Largest(S) == CHOOSE x \in S : \A y \in S : x >= y
ContextLocations(m) ==
    {m.config_model_max_length, m.config_tokenizer_model_max_length,
     m.llm_config_model_max_length, m.llm_config_tokenizer_model_max_length,
     m.tokenizer_model_max_length}

\* What C6 asks of every step
C6_Step ==
    (pc = "configure" /\ pc' = "find")
       => LET L0 == model.tokenizer_model_max_length
              B1 == IF IsSet(env.NUM_LOOK_CLOSE)
                    THEN {(IntOf(Val(env.NUM_LOOK_CLOSE)) * 2560) \div 4 + 1024} ELSE {}
              B2 == IF IsSet(env.NUM_TOKEN_LOOK_CLOSE)
                    THEN {IntOf(Val(env.NUM_TOKEN_LOOK_CLOSE)) \div 4 + 1024} ELSE {}
          IN /\ ContextLocations(model') = {Largest({L0} \cup B1 \cup B2)}
             /\ (env.NUM_LOOK_CLOSE = Some(<<"1","0","0">>) /\ ~IsSet(env.NUM_TOKEN_LOOK_CLOSE) /\ L0 < 65024)
                   => ContextLocations(model') = {65024}

\* C6: when configure_ps3_and_context_length returns, every place that holds
\* the context length holds max(L0, B1, B2), L0 being the tokenizer's length
\* before the call, B1 = NUM_LOOK_CLOSE*2560 div 4 + 1024 and
\* B2 = NUM_TOKEN_LOOK_CLOSE div 4 + 1024, each only if its variable is set;
\* with NUM_LOOK_CLOSE=100 alone and L0 below 65024 they all hold 65024.
C6_ContextLength == [][C6_Step]_vars
\* NUM_LOOK_CLOSE=100 alone: every place holds 65024 after the call
C6_Witness ==
    /\ pc = "find" /\ last.op = "configure"
    /\ env.NUM_LOOK_CLOSE = Some(<<"1","0","0">>) /\ ~IsSet(env.NUM_TOKEN_LOOK_CLOSE)
    /\ ContextLocations(model) = {65024}

\* C7: find_images returns, sorted, exactly the immediate entries whose
\* extension is .jpg, .jpeg, .png, .bmp or .gif in any letter case, and the
\* empty list for a directory that does not exist.
HasImageExtension(name) ==
    \E i \in 1..Len(supported_extensions) : EndsWith(Lower(name), supported_extensions[i])
IsAscending(s) == \A i \in 1..(Len(s) - 1) : StrLess(s[i], s[i + 1])
Elements(s) == {s[i] : i \in 1..Len(s)}
C7_AsClaimed ==
    last.op = "find"
       => IF ~dir.exists THEN image_files = <<>>
          ELSE /\ IsAscending(image_files)
               /\ Elements(image_files) = {n \in Elements(dir.entries) : HasImageExtension(n)}
\* What find_images does return: the entries whose extension is one of the
\* five in lower case or in upper case throughout, sorted
C7_LowerOrUpperOnly ==
    last.op = "find"
       => IF ~dir.exists THEN image_files = <<>>
          ELSE /\ IsAscending(image_files)
               /\ Elements(image_files) =
                     {n \in Elements(dir.entries) :
                         \E i \in 1..Len(supported_extensions) :
                            \/ EndsWith(n, supported_extensions[i])
                            \/ EndsWith(n, Upper(supported_extensions[i]))}

\* C8: with SMOOTH_SELECTION_PROB set to something other than "true" or
\* "false" in any letter case, configure_ps3_and_context_length raises a
\* ValueError that ends the process before the loop: no catalog is found or
\* displayed, no prompt is shown and generate_content is never called.
InvalidSmooth ==
    /\ IsSet(env.SMOOTH_SELECTION_PROB)
    /\ Lower(Val(env.SMOOTH_SELECTION_PROB)) \notin {<<"t","r","u","e">>, <<"f","a","l","s","e">>}
C8_InvalidSmoothIsFatal ==
    InvalidSmooth
       => /\ pc \in {"configure", "exited"}
          /\ last.op \in {"start", "configure"}
          /\ genCalls = 0 /\ turn = 0
          /\ (pc = "exited"
                 => last.raised = Some("ValueError") /\ exitStatus \notin {None, Some(0)})
\* the process ended by the ValueError although the directory holds images
\* and the other variables are valid
C8_Witness ==
    /\ InvalidSmooth /\ pc = "exited" /\ last.raised = Some("ValueError")
    /\ dir.exists /\ dir.entries # <<>> /\ IsSet(env.NUM_LOOK_CLOSE)

====
